---- MODULE Spec2Model ----
(***************************************************************************)
(* A model of backend/scanner.py: CryptoTradingScanner.                    *)
(*                                                                         *)
(* Units.  Python floats are modelled by scaled integers:                  *)
(*   current_price               in 1e-4 dollars   (0.001 -> 10)           *)
(*   total_volume, market_cap    in 1e3 dollars    (10_000_000 -> 10000)   *)
(*   price_change_percentage_24h in 1e-2 percent   (2 -> 200)              *)
(*   rvol                        in tenths         (2 -> 20)               *)
(*   vwap_proximity, sentiment   in hundredths     (2 -> 200, 0.6 -> 60)   *)
(*   ai_score, position_size     in tenths         (10 -> 100)             *)
(*   risk_reward                 in hundredths                             *)
(*   stop_loss, take_profit      in 1e-6 dollars when current_price < 1,   *)
(*                               in 1e-4 dollars otherwise (the digits     *)
(*                               round() keeps)                            *)
(***************************************************************************)
EXTENDS Integers, Sequences, FiniteSets, TLC

VARIABLES
    pc,           \* position of run_scan
    criteria,     \* self.criteria
    max_retries,  \* fetch_data: the argument
    attempt,      \* fetch_data: the loop variable
    requests,     \* number of requests.get calls issued by the running fetch_data
    sleeps,       \* the delays passed to time.sleep by the running fetch_data
    lastError,    \* fetch_data: the exception caught last
    fetchStatus,  \* "idle", "running", "returned", "raised"
    data,         \* the payload response.json() gave the attempt that succeeded
    df,           \* the frame fetch_data returned
    draws,        \* the values np.random gave calculate_technical, per row
    filtered,     \* the candidates apply_filters returned, scored in place
    minute,       \* datetime.now().minute read by calculate_ai_score
    jitter,       \* the values np.random.normal gave calculate_ai_score
    logulp,       \* how far the platform's log10 was from the nearest double
    results,      \* the list run_scan returns
    log,          \* the status line run_scan printed last
    error,        \* the exception the except clause of run_scan caught
    ret           \* the outcome of a direct call of one method

vars == <<pc, criteria, max_retries, attempt, requests, sleeps, lastError,
          fetchStatus, data, df, draws, filtered, minute, jitter, logulp, results, log, error, ret>>

(***************************************************************************)
(* Bounds of the model.                                                    *)
(***************************************************************************)
MaxRetries == 6
MaxRows == 2

(***************************************************************************)
(* Natural numbers of any size.  The integers of the model checker are 32  *)
(* bits wide and a double has a significand of 53 bits, so a natural is a  *)
(* sequence of limbs below 2^15, lowest limb first, without a zero limb on *)
(* top; << >> is 0.                                                        *)
(***************************************************************************)
Abs(x) == IF x < 0 THEN -x ELSE x

Base == 2 ^ 15

RECURSIVE BTrim(_)
BTrim(a) ==
    IF a # <<>> /\ a[Len(a)] = 0 THEN BTrim(SubSeq(a, 1, Len(a) - 1)) ELSE a

\* a natural below 2^31 as limbs, and back
FromNat(n) == BTrim(<<n % Base, (n \div Base) % Base, n \div (Base * Base)>>)

RECURSIVE ToNat(_)
ToNat(a) == IF a = <<>> THEN 0 ELSE a[1] + Base * ToNat(Tail(a))

Limb(a, i) == IF i >= 1 /\ i <= Len(a) THEN a[i] ELSE 0

\* the loops over limbs carry their state st: the index i reached, the carry
\* c (or the remainder r) and the limbs acc produced so far
RECURSIVE BAddFrom(_, _, _)
BAddFrom(a, b, st) ==
    IF st.i > Len(a) /\ st.i > Len(b)
    THEN IF st.c = 0 THEN st.acc ELSE Append(st.acc, st.c)
    ELSE BAddFrom(a, b, [i |-> st.i + 1,
                         c |-> (Limb(a, st.i) + Limb(b, st.i) + st.c) \div Base,
                         acc |-> Append(st.acc, (Limb(a, st.i) + Limb(b, st.i) + st.c) % Base)])

BAdd(a, b) == BAddFrom(a, b, [i |-> 1, c |-> 0, acc |-> <<>>])

\* a - b for a >= b
RECURSIVE BSubFrom(_, _, _)
BSubFrom(a, b, st) ==
    IF st.i > Len(a) THEN BTrim(st.acc)
    ELSE BSubFrom(a, b, [i |-> st.i + 1,
                         c |-> IF a[st.i] - Limb(b, st.i) - st.c < 0 THEN 1 ELSE 0,
                         acc |-> Append(st.acc, (a[st.i] - Limb(b, st.i) - st.c) % Base)])

BSub(a, b) == BSubFrom(a, b, [i |-> 1, c |-> 0, acc |-> <<>>])

\* -1, 0, 1 as a < b, a = b, a > b
RECURSIVE BCmpFrom(_, _, _)
BCmpFrom(a, b, i) ==
    IF i = 0 THEN 0
    ELSE IF a[i] > b[i] THEN 1
    ELSE IF a[i] < b[i] THEN -1
    ELSE BCmpFrom(a, b, i - 1)

BCmp(a, b) ==
    IF Len(a) > Len(b) THEN 1
    ELSE IF Len(a) < Len(b) THEN -1
    ELSE BCmpFrom(a, b, Len(a))

\* acc + a * k * 2^(15 off) for 0 < k <= 2^15: st holds the limb p reached,
\* the carry and the limbs produced
RECURSIVE BMulRow(_, _, _, _, _)
BMulRow(a, k, off, acc, st) ==
    IF st.p > off + Len(a) /\ st.p > Len(acc) /\ st.c = 0 THEN st.out
    ELSE BMulRow(a, k, off, acc,
                 [p |-> st.p + 1,
                  c |-> (Limb(acc, st.p) + Limb(a, st.p - off) * k + st.c) \div Base,
                  out |-> Append(st.out,
                                 (Limb(acc, st.p) + Limb(a, st.p - off) * k + st.c) % Base)])

\* a * k + c for 0 <= k <= 2^15 and c < 2^15
BMulSmall(a, k, c) ==
    IF k = 0 THEN FromNat(c) ELSE BMulRow(a, k, 0, <<>>, [p |-> 1, c |-> c, out |-> <<>>])

\* a * 2^(15 n)
BShlLimbs(a, n) == IF a = <<>> THEN <<>> ELSE [i \in 1..n |-> 0] \o a

\* a div 2^(15 n)
BShrLimbs(a, n) == SubSeq(a, n + 1, Len(a))

\* a * b, one limb of b after the other
RECURSIVE BMulFrom(_, _, _)
BMulFrom(a, b, st) ==
    IF st.i > Len(b) THEN st.acc
    ELSE BMulFrom(a, b,
                  [i |-> st.i + 1,
                   acc |-> IF b[st.i] = 0 THEN st.acc
                           ELSE BMulRow(a, b[st.i], st.i - 1, st.acc,
                                        [p |-> st.i, c |-> 0,
                                         out |-> [q \in 1..(st.i - 1) |-> Limb(st.acc, q)]])])

BMul(a, b) == IF a = <<>> THEN <<>> ELSE BTrim(BMulFrom(a, b, [i |-> 1, acc |-> <<>>]))

\* quotient and remainder of a by k, 0 < k <= 2^15
RECURSIVE BDivSmallFrom(_, _, _)
BDivSmallFrom(a, k, st) ==
    IF st.i = 0 THEN [q |-> BTrim(st.acc), r |-> IF st.r = 0 THEN <<>> ELSE <<st.r>>]
    ELSE BDivSmallFrom(a, k, [i |-> st.i - 1,
                              r |-> (st.r * Base + a[st.i]) % k,
                              acc |-> <<(st.r * Base + a[st.i]) \div k>> \o st.acc])

BDivSmall(a, k) == BDivSmallFrom(a, k, [i |-> Len(a), r |-> 0, acc |-> <<>>])

\* a * 2^n
BShl(a, n) == BShlLimbs(BMulSmall(a, 2 ^ (n % 15), 0), n \div 15)

\* a div 2^n, and whether a bit was shifted out
BShrOut(a, n, d) ==
    [q |-> d.q, sticky |-> d.r # <<>> \/ \E i \in 1..(n \div 15) : Limb(a, i) # 0]

BShr(a, n) == BShrOut(a, n, BDivSmall(BShrLimbs(a, n \div 15), 2 ^ (n % 15)))

RECURSIVE LimbBits(_)
LimbBits(x) == IF x = 0 THEN 0 ELSE 1 + LimbBits(x \div 2)

\* the number of bits of a
BBitLen(a) == IF a = <<>> THEN 0 ELSE 15 * (Len(a) - 1) + LimbBits(a[Len(a)])

\* long division by b of at least two limbs whose top limb is at least 2^14
\* (Knuth's algorithm D).  One step brings down a limb of the dividend: the
\* digit of the quotient is estimated from the two top limbs of the
\* remainder and the top limb of b, and lowered while it is too large.
RECURSIVE BDivDigit(_, _, _)
BDivDigit(r, b, d) ==
    IF BCmp(BMulSmall(b, d, 0), r) > 0 THEN BDivDigit(r, b, d - 1)
    ELSE [d |-> d, r |-> BSub(r, BMulSmall(b, d, 0))]

\* the estimate of the digit, at most 2^15 - 1
BDivEstimate(r, b) ==
    IF (Limb(r, Len(b) + 1) * Base + Limb(r, Len(b))) \div b[Len(b)] < Base
    THEN (Limb(r, Len(b) + 1) * Base + Limb(r, Len(b))) \div b[Len(b)]
    ELSE Base - 1

BDivStep(r, b) == BDivDigit(r, b, BDivEstimate(r, b))

\* st: the limbs of a still to bring down, the remainder and the quotient
BDivNext(st, s) == [i |-> st.i - 1, r |-> s.r, q |-> <<s.d>> \o st.q]

RECURSIVE BDivLimbs(_, _, _)
BDivLimbs(a, b, st) ==
    IF st.i = 0 THEN [q |-> BTrim(st.q), r |-> st.r]
    ELSE BDivLimbs(a, b, BDivNext(st, BDivStep(BTrim(<<a[st.i]>> \o st.r), b)))

BDivLong(a, b) == BDivLimbs(a, b, [i |-> Len(a), r |-> <<>>, q |-> <<>>])

BDivOut(d, n) == [q |-> d.q, r |-> BShr(d.r, n).q]

BDivNorm(a, b, n) == BDivOut(BDivLong(BShl(a, n), BShl(b, n)), n)

\* quotient and remainder of a by b > 0
BDivMod(a, b) ==
    IF Len(b) = 1 THEN BDivSmall(a, b[1])
    ELSE BDivNorm(a, b, 15 - LimbBits(b[Len(b)]))

\* a / 2^n rounded to the nearest natural, a tie to the even one: t is a
\* shifted by n - 1 bits and q by n bits
RoundTie(t, q) ==
    IF Limb(t.q, 1) % 2 = 1 /\ (t.sticky \/ Limb(q, 1) % 2 = 1)
    THEN BAdd(q, <<1>>)
    ELSE q

RoundShifted(t) == RoundTie(t, BDivSmall(t.q, 2).q)

RoundHalfEven(a, n) ==
    IF n <= 0 THEN BShl(a, -n) ELSE RoundShifted(BShr(a, n - 1))

(***************************************************************************)
(* Python and numpy floats: IEEE 754 doubles.  A double is s * m * 2^e     *)
(* with s the sign (0 for zero) and m a natural of at most 53 bits.  Every *)
(* operation is the exact one rounded to the nearest double, ties to even. *)
(* Overflow, subnormals, infinities and NaN are outside the values the     *)
(* scanner computes with and are left out.                                 *)
(***************************************************************************)
Zero == [s |-> 0, e |-> 0, m |-> <<>>]

\* s * q * 2^e for q of 53 bits, or of 54 when the rounding carried
Normal(s, q, e) ==
    IF BBitLen(q) > 53 THEN [s |-> s, e |-> e + 1, m |-> BDivSmall(q, 2).q]
    ELSE [s |-> s, e |-> e, m |-> q]

\* the double nearest to s * n * 2^e
RoundF(s, n, e) ==
    IF n = <<>> \/ s = 0 THEN Zero
    ELSE IF BBitLen(n) <= 53 THEN [s |-> s, e |-> e, m |-> n]
    ELSE Normal(s, RoundHalfEven(n, BBitLen(n) - 53), e + BBitLen(n) - 53)

\* float(k) for an integer k
FromInt(k) ==
    IF k = 0 THEN Zero
    ELSE [s |-> IF k < 0 THEN -1 ELSE 1, e |-> 0, m |-> FromNat(Abs(k))]

FNeg(x) == [s |-> -x.s, e |-> x.e, m |-> x.m]

\* sx * a + sy * b for naturals a and b, c comparing a with b: its sign and
\* its magnitude
SumSign(sx, sy, c) ==
    IF sx = sy THEN sx ELSE IF c > 0 THEN sx ELSE IF c < 0 THEN sy ELSE 0

SumMag(sx, a, sy, b, c) ==
    IF sx = sy THEN BAdd(a, b) ELSE IF c >= 0 THEN BSub(a, b) ELSE BSub(b, a)

SumOf(sx, a, sy, b, c, e) == RoundF(SumSign(sx, sy, c), SumMag(sx, a, sy, b, c), e)

\* the mantissas a and b brought to the exponent e
SumAligned(sx, a, sy, b, e) == SumOf(sx, a, sy, b, BCmp(a, b), e)

SumAt(x, y, e) == SumAligned(x.s, BShl(x.m, x.e - e), y.s, BShl(y.m, y.e - e), e)

\* x + y
FAdd(x, y) ==
    IF x.s = 0 THEN y
    ELSE IF y.s = 0 THEN x
    ELSE SumAt(x, y, IF x.e <= y.e THEN x.e ELSE y.e)

\* x - y
FSub(x, y) == FAdd(x, FNeg(y))

\* x * y
FMul(x, y) == RoundF(x.s * y.s, BMul(x.m, y.m), x.e + y.e)

\* x / y for y # 0: a quotient d of at least 56 bits of x.m * 2^k by y.m,
\* with one more bit that says whether the division left a remainder
QuotientF(s, d, e) == RoundF(s, BMulSmall(d.q, 2, IF d.r = <<>> THEN 0 ELSE 1), e)

FDivBy(x, y, k) == QuotientF(x.s * y.s, BDivMod(BShl(x.m, k), y.m), x.e - y.e - k - 1)

FDiv(x, y) ==
    IF x.s = 0 THEN Zero
    ELSE FDivBy(x, y, IF 56 + BBitLen(y.m) - BBitLen(x.m) > 0
                      THEN 56 + BBitLen(y.m) - BBitLen(x.m) ELSE 0)

\* the sign of x - y
FCmpAt(x, y, e) == SumSign(x.s, -y.s, BCmp(BShl(x.m, x.e - e), BShl(y.m, y.e - e)))

FCmp(x, y) ==
    IF x.s = 0 THEN -y.s
    ELSE IF y.s = 0 THEN x.s
    ELSE FCmpAt(x, y, IF x.e <= y.e THEN x.e ELSE y.e)

\* x <= y, x < y
FLe(x, y) == FCmp(x, y) <= 0

FLt(x, y) == FCmp(x, y) < 0

\* min(x, y) and max(x, y)
Min2(x, y) == IF FLe(x, y) THEN x ELSE y

Max2(x, y) == IF FLe(y, x) THEN x ELSE y

\* the double a decimal literal or a parsed JSON number n/d stands for
Dec(n, d) == FDiv(FromInt(n), FromInt(d))

\* np.rint(x) as an integer
RInt(x) == x.s * ToNat(RoundHalfEven(x.m, -x.e))

\* round(x, digits) of a Python float, in units of 10^-digits: the exact
\* value of the double rounded, a tie to the even neighbour
RoundDec(x, digits) ==
    x.s * ToNat(RoundHalfEven(BMul(x.m, FromNat(10 ^ digits)), -x.e))

\* log10(2) and 2 / ln(10), in units of 2^-75
Log10Of2 == <<25150, 32700, 20412, 4944, 9864>>

TwoOverLn10 == <<10666, 1817, 9957, 30250, 28461>>

\* 1 in units of 2^-75
FracOne == BShlLimbs(<<1>>, 5)

\* z + z^3/3 + z^5/5 + ... in units of 2^-75: st holds the power of z
\* reached, its divisor and the sum so far
RECURSIVE AtanhSum(_, _)
AtanhSum(st, z2) ==
    IF st.zp = <<>> THEN st.acc
    ELSE AtanhSum([zp |-> BShrLimbs(BMul(st.zp, z2), 5), d |-> st.d + 2,
                   acc |-> BAdd(st.acc, BDivSmall(st.zp, st.d).q)], z2)

\* atanh(z) for z in units of 2^-75
Atanh(z) == AtanhSum([zp |-> z, d |-> 1, acc |-> <<>>], BShrLimbs(BMul(z, z), 5))

\* |f - 1| / (f + 1)
AtanhArg(f) ==
    BDivMod(BShlLimbs(IF BCmp(f, FracOne) < 0 THEN BSub(FracOne, f) ELSE BSub(f, FracOne), 5),
            BAdd(f, FracOne)).q

\* (2 / ln 10) atanh(|f - 1| / (f + 1)), and whether f < 1
Log10Atanh(f) ==
    [below |-> BCmp(f, FracOne) < 0,
     part |-> BShrLimbs(BMul(Atanh(AtanhArg(f)), TwoOverLn10), 5)]

\* x = f * 2^k with 3/4 <= f < 3/2, from f0 = x / 2^(k0 - 1) in [1, 2)
Log10Halve(f0, k0) ==
    IF BCmp(f0, BShlLimbs(<<2 ^ 14, 1>>, 4)) >= 0
    THEN [f |-> BDivSmall(f0, 2).q, k |-> k0]
    ELSE [f |-> f0, k |-> k0 - 1]

Log10Reduce(x) == Log10Halve(BShl(x.m, 76 - BBitLen(x.m)), x.e + BBitLen(x.m))

\* the double nearest to k log10(2) + or - the part of f
Log10Round(whole, ser) ==
    RoundF(1, IF ser.below THEN BSub(whole, ser.part) ELSE BAdd(whole, ser.part), -75)

Log10Sum(red) == Log10Round(BMulSmall(Log10Of2, red.k, 0), Log10Atanh(red.f))

\* the double nearest to log10(x) for x >= 1: with x = f * 2^k,
\* log10(x) = k log10(2) + (2 / ln 10) atanh((f - 1) / (f + 1)), computed to
\* 2^-70 and rounded
Log10Nearest(x) == Log10Sum(Log10Reduce(x))

\* the double next below m * 2^e, m of 53 bits
UlpDown(m, e) ==
    IF BBitLen(BSub(m, <<1>>)) < 53
    THEN [s |-> 1, e |-> e - 1, m |-> BSub(BShl(m, 1), <<1>>)]
    ELSE [s |-> 1, e |-> e, m |-> BSub(m, <<1>>)]

\* the double u units in the last place from y > 0, u in LogUlps
Neighbour(y, u) ==
    IF u = 0 \/ y.s = 0 THEN y
    ELSE IF u > 0
    THEN Normal(1, BAdd(BShl(y.m, 53 - BBitLen(y.m)), <<1>>), y.e - (53 - BBitLen(y.m)))
    ELSE UlpDown(BShl(y.m, 53 - BBitLen(y.m)), y.e - (53 - BBitLen(y.m)))

\* np.log10 is the log10 of the platform's mathematical library, which is
\* not correctly rounded: what it returns is the nearest double or one of
\* its two neighbours, which one depending on the build
LogUlps == {-1, 0, 1}

\* mutant of Clip: the lower bound forgotten
ClipUpperOnly(x, lo, hi) == Min2(x, hi)

\* np.clip(x, lo, hi)
Clip(x, lo, hi) == Max2(lo, Min2(x, hi))

(***************************************************************************)
(* __init__                                                                *)
(***************************************************************************)
DefaultCriteria ==
    [price |-> <<10, 1000000>>,
     volume |-> 10000,
     change |-> <<200, 2000>>,
     mcap |-> <<10000, 5000000>>,
     rsi |-> <<50, 70>>,
     rvol |-> 20,
     twitter |-> 10,
     ema |-> TRUE,
     vwap |-> 200,
     sentiment |-> 60]

(***************************************************************************)
(* fetch_data                                                              *)
(***************************************************************************)
DefaultMaxRetries == 5

\* what makes one attempt fail: requests.get raising (connection error,
\* timeout), raise_for_status, response.json() raising, and the ValueError
\* raised for a payload that is not a non-empty list
FailureKinds == {"transport", "timeout", "status", "json", "invalid"}

\* mutants of Backoff: a fixed delay, and an exponent off by one
BackoffConstant(a) == 3

BackoffNext(a) == 3 ^ (a + 1)

\* time.sleep(3 ** attempt)
Backoff(a) == 3 ^ a

(***************************************************************************)
(* The payload of response.json() and pandas frames.                       *)
(*                                                                         *)
(* A payload is a list of dicts.  A cell of a dict is a number, a string   *)
(* that parses as a number, any other string, null, or absent (the dict    *)
(* has no such key).  name and image are carried and read like id and are  *)
(* left out.                                                               *)
(***************************************************************************)
Num(n) == [k |-> "num", n |-> n]

NumStr(n) == [k |-> "numstr", n |-> n]

Text == [k |-> "text", n |-> 0]

Null == [k |-> "null", n |-> 0]

Absent == [k |-> "absent", n |-> 0]

NaN == [k |-> "nan", n |-> 0]

NumericCols ==
    {"current_price", "total_volume", "market_cap", "price_change_percentage_24h"}

Fields == {"id", "symbol"} \cup NumericCols

\* pd.DataFrame(data): the columns are the keys some dict carries; a dict
\* without a key of another gets NaN there
DataFrame(payload) ==
    LET cols == {c \in Fields : \E i \in 1..Len(payload) : payload[i][c].k # "absent"}
    IN  [cols |-> cols,
         rows |-> [i \in 1..Len(payload) |->
                     [cells |-> [c \in cols |->
                         IF payload[i][c].k = "absent" THEN NaN ELSE payload[i][c]]]]]

\* pd.DataFrame()
EmptyFrame == [cols |-> {}, rows |-> <<>>]

\* mutant of IsEmpty: len(df) == 0 in place of df.empty
IsEmptyNoRows(frame) == Len(frame.rows) = 0

\* df.empty: no row or no column
IsEmpty(frame) == Len(frame.rows) = 0 \/ frame.cols = {}

\* pd.to_numeric(x, errors='coerce') on one cell
ToNumeric(v) ==
    IF v.k = "num" THEN v
    ELSE IF v.k = "numstr" THEN Num(v.n)
    ELSE NaN

\* mutant of Ge: written as "not less than", which NaN satisfies
GeNotLess(v, y) == ~(v.k = "num" /\ v.n < y)

\* x >= y and x <= y on a coerced cell: every comparison with NaN is False
Ge(v, y) == v.k = "num" /\ v.n >= y

Le(v, y) == v.k = "num" /\ v.n <= y

(***************************************************************************)
(* calculate_technical                                                     *)
(***************************************************************************)
\* the values one row can get: randint(50, 71), round(uniform(2, 5), 1),
\* random() > 0.3, round(uniform(-2, 2), 2), randint(10, 100),
\* round(uniform(0.6, 1), 2)
TechnicalRange ==
    [rsi : 50..70, rvol : 20..50, ema_alignment : BOOLEAN,
     vwap_proximity : -200..200, twitter_mentions : 10..99,
     news_sentiment : 60..100]

\* df[...] = np.random...(len(df)): row j gets the j-th value of each array
CalculateTechnical(rows, dr) ==
    [j \in 1..Len(rows) |-> [cells |-> rows[j].cells, ind |-> dr[j]]]

(***************************************************************************)
(* apply_filters                                                           *)
(***************************************************************************)
\* lines 95-96: the four columns coerced in a copy
Coerce(row) ==
    [cells |-> [c \in DOMAIN row.cells |->
                  IF c \in NumericCols THEN ToNumeric(row.cells[c])
                  ELSE row.cells[c]]]

\* lines 98-106
CoarseMask(row, crit) ==
    /\ Ge(row.cells["current_price"], crit.price[1])
    /\ Le(row.cells["current_price"], crit.price[2])
    /\ Ge(row.cells["total_volume"], crit.volume)
    /\ Ge(row.cells["price_change_percentage_24h"], crit.change[1])
    /\ Le(row.cells["price_change_percentage_24h"], crit.change[2])
    /\ Ge(row.cells["market_cap"], crit.mcap[1])
    /\ Le(row.cells["market_cap"], crit.mcap[2])

\* lines 114-121: the thresholds are the literals of the code
FineMask(row) ==
    /\ row.ind.rsi >= 50 /\ row.ind.rsi <= 70
    /\ row.ind.rvol >= 20
    /\ row.ind.ema_alignment
    /\ Abs(row.ind.vwap_proximity) <= 200
    /\ row.ind.twitter_mentions >= 10
    /\ row.ind.news_sentiment >= 60

\* the rows that reach calculate_technical
CoarseRows(frame, crit) ==
    LET coerced == [i \in 1..Len(frame.rows) |-> Coerce(frame.rows[i])]
    IN  SelectSeq(coerced, LAMBDA r : CoarseMask(r, crit))

\* apply_filters(df) with dr the arrays np.random gives calculate_technical:
\* the frame returned, or the KeyError of df[col] for a column no row carries
ApplyFilters(frame, crit, dr) ==
    IF IsEmpty(frame) THEN [raised |-> "", frame |-> frame]
    ELSE IF ~(NumericCols \subseteq frame.cols)
    THEN [raised |-> "KeyError", frame |-> EmptyFrame]
    ELSE LET coarse == CoarseRows(frame, crit)
         IN  IF Len(coarse) = 0
             THEN [raised |-> "", frame |-> [cols |-> frame.cols, rows |-> <<>>]]
             ELSE [raised |-> "",
                   frame |-> [cols |-> frame.cols,
                              rows |-> SelectSeq(CalculateTechnical(coarse, dr),
                                                 FineMask)]]

(***************************************************************************)
(* calculate_ai_score                                                      *)
(*                                                                         *)
(* The columns are doubles: price_change_percentage_24h c stands for the   *)
(* double c/100, total_volume and market_cap n for the double 1000 n, rsi  *)
(* for float(rsi), news_sentiment n for n/100 (np.round(., 2)), and j for  *)
(* the double j/100000 that np.random.normal gave.                         *)
(***************************************************************************)
\* total_volume or market_cap in dollars
Thousands(n) == RoundF(1, BMul(FromNat(n), <<1000>>), 0)

\* the doubles nearest to the logarithms lines 133 and 134 take of a row
RowLogs(row) ==
    [total_volume |-> Log10Nearest(Thousands(row.cells["total_volume"].n)),
     market_cap |-> Log10Nearest(Thousands(row.cells["market_cap"].n))]

\* np.log10 of lines 133 and 134 on a platform whose log10 is u units in the
\* last place from the nearest double on the total_volume and on the
\* market_cap
NpLog10(near, u) ==
    [total_volume |-> Neighbour(near.total_volume, u.total_volume),
     market_cap |-> Neighbour(near.market_cap, u.market_cap)]

\* lines 131-136: the features of one row, lg being what np.log10 returned
X(row, lg) ==
    [momentum |-> FDiv(Dec(row.cells["price_change_percentage_24h"].n, 100), FromInt(100)),
     liquidity |-> FDiv(lg.total_volume, FromInt(10)),
     size |-> FDiv(lg.market_cap, FromInt(12)),
     strength |-> FDiv(FromInt(row.ind.rsi), FromInt(100)),
     sentiment |-> Dec(row.ind.news_sentiment, 100)]

\* line 139: (datetime.now().minute % 60) / 60
TimeFactor(mn) == Dec(mn % 60, 60)

\* the terms added one after the other, from the left
RECURSIVE SumFrom(_, _)
SumFrom(terms, st) ==
    IF st.i > Len(terms) THEN st.acc
    ELSE SumFrom(terms, [i |-> st.i + 1, acc |-> FAdd(st.acc, terms[st.i])])

\* lines 142-148: the weighted features x, the time factor and the noise
WeightedSum(x, tf, noise) ==
    SumFrom(<<FMul(x.liquidity, Dec(25, 100)),
              FMul(x.size, Dec(15, 100)),
              FMul(x.strength, Dec(15, 100)),
              FMul(x.sentiment, Dec(15, 100)),
              FMul(tf, Dec(5, 10)),
              noise>>,
            [i |-> 1, acc |-> FMul(x.momentum, Dec(3, 10))])

\* lines 142-148: the sum before np.clip, lg being what np.log10 returned
RawScoreOf(row, mn, j, lg) == WeightedSum(X(row, lg), TimeFactor(mn), Dec(j, 100000))

RawScore(row, mn, j, u) == RawScoreOf(row, mn, j, NpLog10(RowLogs(row), u))

\* np.clip(..., 1, 10).round(1), in tenths: numpy rounds as rint(x * 10) / 10
AiScoreOf(row, mn, j, lg) ==
    RInt(FMul(Clip(RawScoreOf(row, mn, j, lg), FromInt(1), FromInt(10)), FromInt(10)))

AiScore(row, mn, j, u) == AiScoreOf(row, mn, j, NpLog10(RowLogs(row), u))

\* the nearest logarithms of the rows of a frame, from row st.i on
RECURSIVE LogsFrom(_, _)
LogsFrom(frame, st) ==
    IF st.i > Len(frame.rows) THEN st.acc
    ELSE LogsFrom(frame, [i |-> st.i + 1, acc |-> Append(st.acc, RowLogs(frame.rows[st.i]))])

FrameLogs(frame) ==
    IF IsEmpty(frame) THEN <<>> ELSE LogsFrom(frame, [i |-> 1, acc |-> <<>>])

\* calculate_ai_score(df): one score per row; pd.Series([]) for an empty
\* frame.  near holds the nearest logarithms of the rows.
CalculateAiScoreOf(frame, mn, jit, near, ulp) ==
    IF IsEmpty(frame) THEN <<>>
    ELSE [i \in 1..Len(frame.rows) |->
             AiScoreOf(frame.rows[i], mn, jit[i], NpLog10(near[i], ulp[i]))]

CalculateAiScore(frame, mn, jit, ulp) ==
    CalculateAiScoreOf(frame, mn, jit, FrameLogs(frame), ulp)

(***************************************************************************)
(* generate_risk_assessment                                                *)
(*                                                                         *)
(* price is current_price in 1e-4 dollars and s10 the ai_score in tenths;  *)
(* the row holds the doubles price/10000 and s10/10.                       *)
(***************************************************************************)
CurrentPrice(price) == Dec(price, 10000)

Score(s10) == Dec(s10, 10)

\* (10 - row['ai_score']) / 20
VolatilityFactor(score) == FDiv(FSub(FromInt(10), score), FromInt(20))

\* mutant of StopLoss: the volatility factor grows with the score,
\* price * (1 - (0.02 + ai_score / 20))
StopLossInverted(cp, score) ==
    FMul(cp, FSub(FromInt(1), FAdd(Dec(2, 100), FDiv(score, FromInt(20)))))

\* mutant of StopLoss: the 0.02 base left out, so that the stop-loss of
\* ai_score = 10 is the price itself
StopLossNoBase(cp, score) ==
    FMul(cp, FSub(FromInt(1), VolatilityFactor(score)))

\* line 156: the stop_loss before it is rounded
StopLoss(cp, score) ==
    FMul(cp, FSub(FromInt(1), FAdd(Dec(2, 100), VolatilityFactor(score))))

\* line 157: the take_profit before it is rounded
TakeProfit(cp, score) ==
    FMul(cp, FAdd(FromInt(1), FAdd(Dec(4, 100), FDiv(score, FromInt(50)))))

\* line 158: min(15, ai_score * 1.5)
PositionSize(score) == Min2(FromInt(15), FMul(score, Dec(15, 10)))

\* take_profit - row['current_price']
ProfitDelta(tp, cp) == FSub(tp, cp)

\* row['current_price'] - stop_loss
LossDelta(cp, sl) == FSub(cp, sl)

\* mutant of RiskReward: the floor max(1, ...) left out
RiskRewardNoFloor(profit, loss) == FDiv(profit, loss)

\* max(1, risk_reward) for a non-zero denominator (lines 160 and 166)
RiskReward(profit, loss) == Max2(FromInt(1), FDiv(profit, loss))

\* lines 160-166: the dict returned for the stop_loss sl, the take_profit tp
\* and the position_size ps before they are rounded, stop_loss and
\* take_profit in units of 10^-digits, position_size in tenths and
\* risk_reward in hundredths, or the ZeroDivisionError of line 160
PlanFrom(cp, sl, tp, ps, digits) ==
    IF LossDelta(cp, sl).s = 0
    THEN [raised |-> "ZeroDivisionError", digits |-> digits, stop_loss |-> 0,
          take_profit |-> 0, position_size |-> 0, risk_reward |-> 0]
    ELSE [raised |-> "", digits |-> digits,
          stop_loss |-> RoundDec(sl, digits),
          take_profit |-> RoundDec(tp, digits),
          position_size |-> RoundDec(ps, 1),
          risk_reward |-> RoundDec(RiskReward(ProfitDelta(tp, cp), LossDelta(cp, sl)), 2)]

\* lines 154-158
PlanOf(cp, score, digits) ==
    PlanFrom(cp, StopLoss(cp, score), TakeProfit(cp, score), PositionSize(score), digits)

\* generate_risk_assessment(row)
GenerateRiskAssessment(price, s10) ==
    PlanOf(CurrentPrice(price), Score(s10), IF price < 10000 THEN 6 ELSE 4)

(***************************************************************************)
(* run_scan, lines 189-219: the records assembled from the scored frame    *)
(***************************************************************************)
\* round(float(row['current_price']), 6 if ... < 1 else 4)
RoundPrice(price) ==
    IF price < 10000 THEN [digits |-> 6, v |-> price * 100]
    ELSE [digits |-> 4, v |-> price]

\* one dict of results, risk being generate_risk_assessment(row)
Record(row, risk) ==
    [id |-> row.cells["id"],
     symbol |-> "UPPER",
     price |-> RoundPrice(row.cells["current_price"].n),
     change_24h |-> row.cells["price_change_percentage_24h"].n,
     volume |-> row.cells["total_volume"].n,
     market_cap |-> row.cells["market_cap"].n,
     ai_score |-> row.ai_score,
     rsi |-> row.ind.rsi,
     rvol |-> row.ind.rvol,
     ema_alignment |-> row.ind.ema_alignment,
     vwap_proximity |-> row.ind.vwap_proximity,
     news_sentiment |-> row.ind.news_sentiment,
     twitter_mentions |-> row.ind.twitter_mentions,
     risk |-> risk]

\* the exception the loop body raises on a row, "" for none: row['id'] and
\* row['symbol'] need their columns, .upper() needs a str (a name or a
\* string of digits), and the division of generate_risk_assessment a
\* non-zero denominator
RowError(frame, row, risk) ==
    IF "id" \notin frame.cols \/ "symbol" \notin frame.cols THEN "KeyError"
    ELSE IF row.cells["symbol"].k \notin {"text", "numstr"} THEN "AttributeError"
    ELSE risk.raised

\* one pass of the loop body of lines 190-216 on row st.i, risk being its
\* plan: the record appended, or the exception raised
RowDone(frame, st, row, risk) ==
    IF RowError(frame, row, risk) # ""
    THEN [i |-> st.i, raised |-> RowError(frame, row, risk), results |-> <<>>]
    ELSE [i |-> st.i + 1, raised |-> "", results |-> Append(st.results, Record(row, risk))]

RowStep(frame, st, row) ==
    RowDone(frame, st, row,
            GenerateRiskAssessment(row.cells["current_price"].n, row.ai_score))

\* the loop of lines 190-216 from row st.i on: the list built, or the first
\* exception
RECURSIVE AssembleFrom(_, _)
AssembleFrom(frame, st) ==
    IF st.raised # "" \/ st.i > Len(frame.rows)
    THEN [raised |-> st.raised, results |-> st.results]
    ELSE AssembleFrom(frame, RowStep(frame, st, frame.rows[st.i]))

Assemble(frame) == AssembleFrom(frame, [i |-> 1, raised |-> "", results |-> <<>>])

\* filtered['ai_score'] = self.calculate_ai_score(filtered)
WithScores(frame, scores) ==
    [cols |-> frame.cols \cup {"ai_score"},
     rows |-> [i \in 1..Len(frame.rows) |->
                 [cells |-> frame.rows[i].cells, ind |-> frame.rows[i].ind,
                  ai_score |-> scores[i]]]]

(***************************************************************************)
(* Inputs.                                                                 *)
(***************************************************************************)
\* price 5, volume 20e6, change 10%, market cap 100e6
GoodRow ==
    [id |-> Text, symbol |-> Text, current_price |-> Num(50000),
     total_volume |-> Num(20000), market_cap |-> Num(100000),
     price_change_percentage_24h |-> Num(1000)]

\* the dict {}
EmptyRecord == [c \in Fields |-> Absent]

\* a good row with one required cell null, not numeric or absent
BadCellRows ==
    {[GoodRow EXCEPT ![c] = v] : c \in NumericCols, v \in {Null, Text, Absent}}

\* the rows a payload of run_scan is made of: a row that passes, the dict {},
\* a row that passes but for its id, which it does not carry, a row whose
\* price and symbol are strings of digits ("0.001" and "42"), a null symbol,
\* a row below the volume threshold, and rows with a bad cell of each kind
\* (a string that is no number, null, a missing key)
ScanRows ==
    {GoodRow, EmptyRecord,
     [GoodRow EXCEPT !["id"] = Absent],
     [GoodRow EXCEPT !["current_price"] = NumStr(10), !["symbol"] = NumStr(42)],
     [GoodRow EXCEPT !["symbol"] = Null],
     [GoodRow EXCEPT !["total_volume"] = Num(9999)],
     [GoodRow EXCEPT !["current_price"] = Text],
     [GoodRow EXCEPT !["total_volume"] = Null,
                     !["price_change_percentage_24h"] = Text],
     [GoodRow EXCEPT !["market_cap"] = Absent]}

\* response.json() of an attempt that succeeds: a non-empty list
Payloads == UNION {[1..n -> ScanRows] : n \in 1..MaxRows}

\* values of calculate_technical on the ends of its ranges: one draw that
\* passes the filters and one that the EMA filter rejects
IndicatorDraws ==
    {[rsi |-> 50, rvol |-> 20, ema_alignment |-> TRUE, vwap_proximity |-> -200,
      twitter_mentions |-> 10, news_sentiment |-> 60],
     [rsi |-> 70, rvol |-> 50, ema_alignment |-> FALSE, vwap_proximity |-> 200,
      twitter_mentions |-> 99, news_sentiment |-> 100]}

\* datetime.now().minute of the scans, one that leaves the score of GoodRow
\* inside the clamp
Minutes == {59}

\* what a scan draws for a row: np.random.normal(0.3, 0.15) in units of
\* 1e-5 and the platform's log10, the mean on a platform one unit off both
\* ways and a far tail on one that rounds correctly
ScoreDraws ==
    {[noise |-> 30000, ulp |-> [total_volume |-> -1, market_cap |-> 1]],
     [noise |-> 1200000, ulp |-> [total_volume |-> 0, market_cap |-> 0]]}

(***************************************************************************)
(* State machine.                                                          *)
(***************************************************************************)
NoCall == [op |-> "none"]

\* nothing has been called yet
Idle ==
    /\ pc = "IDLE"
    /\ max_retries = 0
    /\ attempt = 0
    /\ requests = 0
    /\ sleeps = <<>>
    /\ lastError = ""
    /\ fetchStatus = "idle"
    /\ data = <<>>
    /\ df = EmptyFrame
    /\ draws = <<>>
    /\ filtered = EmptyFrame
    /\ minute = 0
    /\ jitter = <<>>
    /\ logulp = <<>>
    /\ results = <<>>
    /\ log = ""
    /\ error = ""
    /\ ret = NoCall

\* the scanner as __init__ leaves it
Init == Idle /\ criteria = DefaultCriteria

scanVars == <<pc, draws, filtered, minute, jitter, logulp, results, log, error>>

fetchVars == <<max_retries, attempt, requests, sleeps, lastError, fetchStatus, data, df>>

\* fetch_data(max_retries) called on its own
FetchCall ==
    /\ pc = "IDLE" /\ fetchStatus = "idle"
    /\ \E m \in 0..MaxRetries : max_retries' = m
    /\ attempt' = 0 /\ requests' = 0 /\ sleeps' = <<>> /\ lastError' = ""
    /\ fetchStatus' = "running"
    /\ ret' = NoCall
    /\ UNCHANGED <<criteria, data, df>>
    /\ UNCHANGED scanVars

\* one pass of the loop that ends in the except clause (lines 60-64)
FetchFail ==
    /\ fetchStatus = "running" /\ attempt < max_retries
    /\ requests' = requests + 1
    /\ \E e \in FailureKinds : lastError' = e
    /\ IF attempt = max_retries - 1
       THEN fetchStatus' = "raised" /\ UNCHANGED <<attempt, sleeps>>
       ELSE /\ sleeps' = Append(sleeps, Backoff(attempt))
            /\ attempt' = attempt + 1
            /\ UNCHANGED fetchStatus
    /\ UNCHANGED <<criteria, max_retries, data, df, ret>>
    /\ UNCHANGED scanVars

\* one pass of the loop that returns pd.DataFrame(data) (lines 36-58)
FetchOk ==
    /\ fetchStatus = "running" /\ attempt < max_retries
    /\ requests' = requests + 1
    /\ \E d \in Payloads : data' = d /\ df' = DataFrame(d)
    /\ fetchStatus' = "returned"
    /\ UNCHANGED <<criteria, max_retries, attempt, sleeps, lastError, ret>>
    /\ UNCHANGED scanVars

\* the loop ran zero times: return pd.DataFrame() (line 66)
FetchLoopExit ==
    /\ fetchStatus = "running" /\ attempt >= max_retries
    /\ df' = EmptyFrame
    /\ fetchStatus' = "returned"
    /\ UNCHANGED <<criteria, max_retries, attempt, requests, sleeps, lastError, data, ret>>
    /\ UNCHANGED scanVars

\* run_scan is entered and calls self.fetch_data() (lines 171-173)
StartScan ==
    /\ pc = "IDLE" /\ fetchStatus = "idle"
    /\ pc' = "FETCHING"
    /\ max_retries' = DefaultMaxRetries
    /\ attempt' = 0 /\ requests' = 0 /\ sleeps' = <<>> /\ lastError' = ""
    /\ fetchStatus' = "running"
    /\ ret' = NoCall
    /\ UNCHANGED <<criteria, data, df, draws, filtered, minute, jitter, logulp, results, log, error>>

\* mutant of ExceptClause: the error swallowed without its message
ExceptClauseSilent == [log |-> "no_match", results |-> <<>>]

\* the except clause of run_scan (lines 221-225): the message printed and
\* the list returned
ExceptClause == [log |-> "critical", results |-> <<>>]

\* fetch_data raised
ScanFetchRaised ==
    /\ pc = "FETCHING" /\ fetchStatus = "raised"
    /\ pc' = "FAILED"
    /\ results' = ExceptClause.results
    /\ log' = ExceptClause.log
    /\ error' = lastError
    /\ UNCHANGED <<criteria, draws, filtered, minute, jitter, logulp, ret>>
    /\ UNCHANGED fetchVars

\* fetch_data returned (lines 175-177); its frame is gone
ScanFetched ==
    /\ pc = "FETCHING" /\ fetchStatus = "returned"
    /\ IF IsEmpty(df)
       THEN pc' = "DONE" /\ results' = <<>> /\ log' = "no_data"
       ELSE pc' = "FILTERING" /\ UNCHANGED <<results, log>>
    /\ fetchStatus' = "idle"
    /\ attempt' = 0 /\ requests' = 0 /\ sleeps' = <<>> /\ lastError' = ""
    /\ UNCHANGED <<error, criteria, max_retries, data, df, draws, filtered, minute, jitter, logulp, ret>>

\* the number of rows calculate_technical is given by apply_filters(frame)
NeedDraws(frame, crit) ==
    IF IsEmpty(frame) \/ ~(NumericCols \subseteq frame.cols) THEN 0
    ELSE Len(CoarseRows(frame, crit))

\* filtered = self.apply_filters(df) (lines 179-183)
ScanFilter ==
    /\ pc = "FILTERING"
    /\ \E dr \in [1..NeedDraws(df, criteria) -> IndicatorDraws] :
         LET out == ApplyFilters(df, criteria, dr)
         IN  /\ draws' = dr
             /\ IF out.raised # ""
                THEN /\ pc' = "FAILED" /\ error' = out.raised
                     /\ results' = ExceptClause.results /\ log' = ExceptClause.log
                     /\ UNCHANGED filtered
                ELSE IF IsEmpty(out.frame)
                THEN /\ pc' = "DONE" /\ results' = <<>> /\ log' = "no_match"
                     /\ filtered' = out.frame /\ UNCHANGED error
                ELSE /\ pc' = "SCORING" /\ filtered' = out.frame
                     /\ UNCHANGED <<results, log, error>>
    /\ UNCHANGED <<criteria, minute, jitter, logulp, ret>>
    /\ UNCHANGED fetchVars

\* filtered['ai_score'] = self.calculate_ai_score(filtered) (lines 185-187)
ScanScore ==
    /\ pc = "SCORING"
    /\ \E near \in {FrameLogs(filtered)} :
       \E mn \in Minutes : \E d \in [1..Len(filtered.rows) -> ScoreDraws] :
         /\ minute' = mn
         /\ jitter' = [i \in 1..Len(filtered.rows) |-> d[i].noise]
         /\ logulp' = [i \in 1..Len(filtered.rows) |-> d[i].ulp]
         /\ filtered' = WithScores(filtered,
                CalculateAiScoreOf(filtered, mn, jitter', near, logulp'))
    /\ pc' = "ASSEMBLING"
    /\ UNCHANGED <<criteria, draws, results, log, error, ret>>
    /\ UNCHANGED fetchVars

\* the loop over filtered.iterrows() and the return (lines 189-219), or the
\* except clause when a row raises
ScanReturn(out) ==
    IF out.raised # ""
    THEN /\ pc' = "FAILED" /\ error' = out.raised
         /\ results' = ExceptClause.results /\ log' = ExceptClause.log
    ELSE /\ pc' = "DONE" /\ results' = out.results /\ log' = "completed"
         /\ UNCHANGED error

ScanAssemble ==
    /\ pc = "ASSEMBLING"
    /\ ScanReturn(Assemble(filtered))
    /\ UNCHANGED <<criteria, draws, filtered, minute, jitter, logulp, ret>>
    /\ UNCHANGED fetchVars

(***************************************************************************)
(* The methods called on their own, once, on arguments from a bounded set. *)
(***************************************************************************)
fetchAndScanVars ==
    <<pc, criteria, max_retries, attempt, requests, sleeps, lastError, fetchStatus,
      data, df, draws, filtered, minute, jitter, logulp, results, log, error>>

\* apply_filters(frame) for a frame of frames, np.random drawing from drawset
ApplyFiltersOn(frames, drawset) ==
    /\ pc = "IDLE" /\ fetchStatus = "idle" /\ ret = NoCall
    /\ \E f \in frames : \E dr \in [1..NeedDraws(f, criteria) -> drawset] :
         ret' = [op |-> "apply_filters", arg |-> f, dr |-> dr,
                 out |-> ApplyFilters(f, criteria, dr)]
    /\ UNCHANGED fetchAndScanVars

\* calculate_ai_score(frame)
CalculateAiScoreOn(frames, minutes, jitters, errors) ==
    /\ pc = "IDLE" /\ fetchStatus = "idle" /\ ret = NoCall
    /\ \E f \in frames : \E near \in {FrameLogs(f)} :
       \E mn \in minutes : \E jit \in [1..Len(f.rows) -> jitters] :
       \E ulp \in [1..Len(f.rows) -> errors] :
         ret' = [op |-> "calculate_ai_score", arg |-> f, minute |-> mn,
                 jitter |-> jit, logulp |-> ulp,
                 out |-> CalculateAiScoreOf(f, mn, jit, near, ulp)]
    /\ UNCHANGED fetchAndScanVars

\* generate_risk_assessment(row) for two rows of one price
GenerateRiskAssessmentOn(prices, pairs) ==
    /\ pc = "IDLE" /\ fetchStatus = "idle" /\ ret = NoCall
    /\ \E p \in prices : \E s \in pairs :
         ret' = [op |-> "generate_risk_assessment", price |-> p,
                 score_a |-> s[1], score_b |-> s[2],
                 plan_a |-> GenerateRiskAssessment(p, s[1]),
                 plan_b |-> GenerateRiskAssessment(p, s[2])]
    /\ UNCHANGED fetchAndScanVars

\* a frame of rows that passed apply_filters
CandidateFrame(rows) ==
    [cols |-> Fields, rows |-> rows]

\* frames for the direct calls of the scan specification: empty ones (no row,
\* or rows of no column), one row that passes, and every row with a bad cell
\* beside one that passes and on its own (the frame of a row that lacks a
\* key lacks the column)
DirectFrames ==
    {EmptyFrame, DataFrame(<<EmptyRecord>>), DataFrame(<<GoodRow>>)}
    \cup {DataFrame(<<r, GoodRow>>) : r \in BadCellRows}
    \cup {DataFrame(<<r>>) : r \in BadCellRows}

ApplyFiltersDirect == ApplyFiltersOn(DirectFrames, IndicatorDraws)

\* a candidate of change c, volume v, market cap m, RSI r and sentiment n
Candidate(c, v, m, r, n) ==
    [cells |-> [GoodRow EXCEPT !["price_change_percentage_24h"] = Num(c),
                                !["total_volume"] = Num(v),
                                !["market_cap"] = Num(m)],
     ind |-> [rsi |-> r, rvol |-> 20, ema_alignment |-> TRUE, vwap_proximity |-> 0,
              twitter_mentions |-> 10, news_sentiment |-> n]]

\* candidates on the ends of the ranges the filters admit, one inside, and
\* one whose logarithms glibc gives one unit in the last place low
ScoreCandidates ==
    {Candidate(c, v, m, r, n) :
        c \in {200, 2000}, v \in {10000, 2000000000},
        m \in {10000, 5000000}, r \in {50, 70}, n \in {60, 100}}
    \cup {Candidate(1000, 20000, 100000, 60, 80), Candidate(200, 10103, 10103, 50, 60)}

\* the empty frames (no row, or rows of no column) and frames of one candidate
ScoreFrames ==
    {EmptyFrame, DataFrame(<<EmptyRecord>>)}
    \cup {CandidateFrame(<<c>>) : c \in ScoreCandidates}

ScoreMinutes == {0, 30, 59}

\* np.random.normal(0.3, 0.15) is unbounded: both far tails, and values
\* within two standard deviations
ScoreJitters == {-1200000, 0, 30000, 52748, 1200000}

\* every outcome of np.log10 on the total_volume and on the market_cap
CalculateAiScoreRange ==
    CalculateAiScoreOn(ScoreFrames, ScoreMinutes, ScoreJitters,
                       [total_volume : LogUlps, market_cap : LogUlps])

Next ==
    \/ StartScan
    \/ FetchFail
    \/ FetchOk
    \/ ScanFetchRaised
    \/ ScanFetched
    \/ ScanFilter
    \/ ScanScore
    \/ ScanAssemble
    \/ ApplyFiltersDirect
    \/ CalculateAiScoreRange

Spec == Init /\ [][Next]_vars

NextFetch ==
    \/ FetchCall
    \/ FetchFail
    \/ FetchOk
    \/ FetchLoopExit

SpecFetch == Init /\ [][NextFetch]_vars

(***************************************************************************)
(* apply_filters under several criteria, on rows at the thresholds.        *)
(***************************************************************************)
\* criteria whose ten thresholds all differ from the defaults
TightCriteria ==
    [price |-> <<20, 500000>>,
     volume |-> 20000,
     change |-> <<300, 1500>>,
     mcap |-> <<20000, 1000000>>,
     rsi |-> <<55, 65>>,
     rvol |-> 30,
     twitter |-> 50,
     ema |-> TRUE,
     vwap |-> 100,
     sentiment |-> 80]

CriteriaSet ==
    {DefaultCriteria, TightCriteria, [DefaultCriteria EXCEPT !.ema = FALSE]}

BoundaryRows ==
    {[id |-> Text, symbol |-> Text, current_price |-> Num(p), total_volume |-> Num(v),
      market_cap |-> Num(m), price_change_percentage_24h |-> Num(c)] :
        p \in {9, 10, 20, 50000, 500000, 1000000, 1000001},
        v \in {9999, 10000, 20000},
        c \in {199, 200, 300, 1500, 2000, 2001},
        m \in {9999, 10000, 20000, 1000000, 5000000, 5000001}}

BoundaryFrames ==
    {EmptyFrame} \cup {DataFrame(<<r>>) : r \in BoundaryRows \cup ScanRows \cup BadCellRows}

BoundaryDraws ==
    {[rsi |-> r, rvol |-> 20, ema_alignment |-> e, vwap_proximity |-> w,
      twitter_mentions |-> 10, news_sentiment |-> 60] :
        r \in {50, 55, 70}, e \in BOOLEAN, w \in {-200, 100, 200}}
    \cup
    {[rsi |-> 60, rvol |-> v, ema_alignment |-> TRUE, vwap_proximity |-> 100,
      twitter_mentions |-> t, news_sentiment |-> n] :
        v \in {20, 30, 50}, t \in {10, 50, 99}, n \in {60, 80, 100}}

ApplyFiltersBoundary == ApplyFiltersOn(BoundaryFrames, BoundaryDraws)

InitFilter == Idle /\ criteria \in CriteriaSet

NextFilter == ApplyFiltersBoundary

SpecFilter == InitFilter /\ [][NextFilter]_vars

(***************************************************************************)
(* generate_risk_assessment on pairs of rows of one price.                 *)
(***************************************************************************)
\* 0, 0.0001, 0.001, 0.0011, 0.9999, 1, 1.001, 1.0015, 1.0025, 5, 100: the
\* ends of the price filter, both sides of the change of rounding at 1, and
\* prices whose plan lies next to a rounding tie
RiskPrices == {0, 1, 10, 11, 9999, 10000, 10010, 10015, 10025, 50000, 1000000}

\* the values of ai_score: 1.0, 1.1, ..., 10.0
AiScores == 10..100

\* every score against the next lower one and against the lowest: an order
\* that holds between neighbours holds between any two scores
ScorePairs ==
    {s \in AiScores \X AiScores : s[1] = s[2] + 1 \/ s[2] = 10}

GenerateRiskAssessmentPairs == GenerateRiskAssessmentOn(RiskPrices, ScorePairs)

NextRisk == GenerateRiskAssessmentPairs

SpecRisk == Init /\ [][NextRisk]_vars

(***************************************************************************)
(* Properties of fetch_data (SpecFetch).                                   *)
(***************************************************************************)
\* C1: when every attempt of fetch_data(max_retries) failed, max_retries >= 1,
\* the exception is raised after exactly max_retries requests, there was a
\* sleep between consecutive attempts and none after the last, and the
\* delays slept are strictly increasing.
C1_ExhaustedFetch ==
    fetchStatus = "raised" =>
        /\ max_retries >= 1
        /\ requests = max_retries
        /\ attempt = max_retries - 1
        /\ Len(sleeps) = max_retries - 1
        /\ \A i \in 1..(Len(sleeps) - 1) : sleeps[i] < sleeps[i + 1]

\* four attempts failed: three sleeps of 1, 3 and 9 seconds, then the raise
C1_Witness ==
    /\ fetchStatus = "raised"
    /\ max_retries = 4
    /\ requests = 4
    /\ sleeps = <<1, 3, 9>>

\* the largest delay under the default max_retries, the one number the code
\* fixes that could serve as a ceiling
DefaultCeiling == Backoff(DefaultMaxRetries - 2)

\* C5 as claimed: whatever max_retries is, no delay slept between two retries
\* exceeds one ceiling.
C5_CeilingForEveryMaxRetries ==
    \A i \in 1..Len(sleeps) : sleeps[i] <= DefaultCeiling

\* C5 as amended: the i-th delay slept is 3^(i-1) seconds, so no delay exceeds
\* 3^(max_retries - 2), a bound that grows with max_retries (27 seconds for
\* the default of 5); there is no ceiling of its own.
C5_DelayGrowsWithMaxRetries ==
    \A i \in 1..Len(sleeps) :
        /\ sleeps[i] = 3 ^ (i - 1)
        /\ max_retries >= 2
        /\ sleeps[i] <= 3 ^ (max_retries - 2)

\* six attempts: the fifth delay is 81 seconds, the bound for max_retries = 6
C5_Witness ==
    /\ max_retries = 6
    /\ Len(sleeps) = 5
    /\ sleeps[5] = 81

(***************************************************************************)
(* Properties of run_scan and of the methods called on their own (Spec).   *)
(***************************************************************************)
\* lines 175-225 as a function of the frame fetched and of what the clock
\* and np.random give: the exception the except clause caught, "" for none,
\* and the list run_scan returns
ScanOutcome(frame, crit, dr, mn, jit, ulp) ==
    IF IsEmpty(frame) THEN [raised |-> "", results |-> <<>>]
    ELSE LET f == ApplyFilters(frame, crit, dr)
         IN  IF f.raised # "" THEN [raised |-> f.raised, results |-> ExceptClause.results]
             ELSE IF IsEmpty(f.frame) THEN [raised |-> "", results |-> <<>>]
             ELSE LET a == Assemble(WithScores(f.frame, CalculateAiScore(f.frame, mn, jit, ulp)))
                  IN  IF a.raised # ""
                      THEN [raised |-> a.raised, results |-> ExceptClause.results]
                      ELSE [raised |-> "", results |-> a.results]

\* C3: a failed scan returns the empty list and signals the failure: the
\* except clause caught an exception and printed the line "Critical error
\* during scan", which no scan that ran to its end prints, one that found
\* nothing included; the failed scan and the scan without a match are told
\* apart by it.
C3_FailureSignalled ==
    /\ pc = "FAILED" => results = <<>> /\ log = "critical" /\ error # ""
    /\ pc = "DONE" => log \in {"no_data", "no_match", "completed"} /\ error = ""
    /\ pc = "DONE" /\ results = <<>> => log \in {"no_data", "no_match"}

\* the fetch used up its five attempts and run_scan returned []
C3_Witness ==
    /\ pc = "FAILED"
    /\ fetchStatus = "raised"
    /\ requests = DefaultMaxRetries
    /\ results = <<>>
    /\ log = "critical"

\* the steps of one scan cycle, in order
StageOrder ==
    {<<"IDLE", "FETCHING">>,
     <<"FETCHING", "FILTERING">>, <<"FETCHING", "DONE">>, <<"FETCHING", "FAILED">>,
     <<"FILTERING", "SCORING">>, <<"FILTERING", "DONE">>, <<"FILTERING", "FAILED">>,
     <<"SCORING", "ASSEMBLING">>,
     <<"ASSEMBLING", "DONE">>, <<"ASSEMBLING", "FAILED">>}

\* every record of the payload carries every field, and its symbol is a string
WellFormed(payload) ==
    \A i \in 1..Len(payload) :
        /\ \A c \in Fields : payload[i][c].k # "absent"
        /\ payload[i]["symbol"].k \in {"text", "numstr"}

\* C4 as claimed: the stages follow each other in order, FAILED is entered
\* from FETCHING only, and a stage that has nothing to process ends the scan
\* in DONE with an empty result.
C4_FailedOnlyFromFetching ==
    [][/\ pc' # pc => <<pc, pc'>> \in StageOrder
       /\ (pc' = "FAILED" /\ pc # "FAILED") => pc = "FETCHING"
       /\ (pc' = "DONE" /\ pc \in {"FETCHING", "FILTERING"}) => results' = <<>>]_vars

\* C4 as amended: the stages follow each other in order; FAILED is entered
\* from FETCHING when the fetch used up its retries, and from FILTERING or
\* ASSEMBLING when a record of the payload lacks a field or has a symbol that
\* is no string; for a payload of well-formed records a scan whose fetch
\* succeeded ends in DONE, with an empty result when a stage has nothing to
\* process.
C4_FailedFromFetchingOrMalformed ==
    [][/\ pc' # pc => <<pc, pc'>> \in StageOrder
       /\ (pc' = "FAILED" /\ pc # "FAILED") =>
            \/ pc = "FETCHING" /\ fetchStatus = "raised" /\ requests = max_retries
            \/ pc \in {"FILTERING", "ASSEMBLING"} /\ ~WellFormed(data)
       /\ (pc' = "DONE" /\ pc \in {"FETCHING", "FILTERING"}) => results' = <<>>
       /\ (pc' = "DONE" /\ pc = "ASSEMBLING") => results' # <<>>]_vars

\* a payload of two well-formed records of which one is emitted
C4_Witness ==
    /\ pc = "DONE"
    /\ Len(data) = 2
    /\ WellFormed(data)
    /\ Len(results) = 1
    /\ log = "completed"

\* a snapshot without assets: no row, or rows that carry no field
NoAssets(frame) == Len(frame.rows) = 0 \/ frame.cols = {}

\* C9: a fetch that yields no asset makes run_scan return an empty list
\* through its normal return or through its except clause, never anything
\* else; apply_filters and calculate_ai_score called on an empty frame return
\* an empty frame and an empty series and do not raise.
C9_EmptyInEmptyOut ==
    /\ (pc \in {"FILTERING", "SCORING", "ASSEMBLING"}) => ~NoAssets(df)
    /\ (pc \in {"DONE", "FAILED"} /\ NoAssets(df)) =>
            /\ results = <<>>
            /\ \/ pc = "DONE" /\ log = "no_data" /\ error = ""
               \/ pc = "FAILED" /\ fetchStatus = "raised" /\ error \in FailureKinds
    /\ (ret.op = "apply_filters" /\ NoAssets(ret.arg)) =>
            ret.out.raised = "" /\ NoAssets(ret.out.frame)
    /\ (ret.op = "calculate_ai_score" /\ NoAssets(ret.arg)) => ret.out = <<>>

\* the payload [{}, {}]: a frame of two rows and no column
C9_Witness ==
    /\ pc = "DONE"
    /\ Len(df.rows) = 2
    /\ df.cols = {}
    /\ results = <<>>
    /\ log = "no_data"

\* a record whose current_price, total_volume, market_cap or
\* price_change_percentage_24h is missing or not numeric
BadRow(r) == \E c \in NumericCols : r[c].k \notin {"num", "numstr"}

DropBad(payload) == SelectSeq(payload, LAMBDA r : ~BadRow(r))

\* a row of a frame whose current_price, total_volume, market_cap or
\* price_change_percentage_24h is missing or not numeric
BadFrameRow(frame, i) ==
    \E c \in NumericCols :
        c \notin frame.cols \/ frame.rows[i].cells[c].k \notin {"num", "numstr"}

\* the scan is over and its payload held a row with a missing or
\* non-numeric required field
ScannedBadRow ==
    pc \in {"DONE", "FAILED"} /\ \E i \in 1..Len(data) : BadRow(data[i])

\* the outcome of run_scan on the payload without such rows, the clock and
\* np.random giving the same values
OutcomeWithout ==
    ScanOutcome(DataFrame(DropBad(data)), criteria, draws, minute, jitter, logulp)

\* a row with a missing or non-numeric required field is neither a candidate
\* of apply_filters nor a record of run_scan
BadRowsExcluded ==
    /\ pc \in {"SCORING", "ASSEMBLING", "DONE"} =>
            \A i \in 1..Len(filtered.rows) : \A c \in NumericCols :
                filtered.rows[i].cells[c].k = "num"
    /\ (ret.op = "apply_filters" /\ ~IsEmpty(ret.out.frame)) =>
            \A i \in 1..Len(ret.out.frame.rows) : \A c \in NumericCols :
                ret.out.frame.rows[i].cells[c].k = "num"
    /\ Len(results) <= Len(DropBad(data))
    /\ \A i \in 1..Len(results) : \E j \in 1..Len(data) :
            /\ ~BadRow(data[j])
            /\ results[i].volume = data[j]["total_volume"].n
            /\ results[i].market_cap = data[j]["market_cap"].n
            /\ results[i].change_24h = data[j]["price_change_percentage_24h"].n

\* C10 as claimed: a row with a missing or non-numeric required field is
\* neither a candidate of apply_filters nor a record of run_scan, and it is
\* not fatal: apply_filters raises nothing on a frame that holds one, and
\* run_scan ends and returns as it does for the payload without such rows.
C10_BadRowsNonFatal ==
    /\ BadRowsExcluded
    /\ ret.op = "apply_filters" => ret.out.raised = ""
    /\ ScannedBadRow =>
            [raised |-> error, results |-> results] = OutcomeWithout

\* C10 as amended: such a row is neither a candidate nor a record.  It is
\* fatal when the records of the snapshot carry some key but none of them
\* carries one of the four fields: apply_filters then raises KeyError; it
\* raises nothing otherwise, and a scan that fails then fails without such
\* rows too.  When the other rows carry between them every key the snapshot
\* carries, run_scan ends and returns as it does for the payload without
\* such rows; when every row is such a row it returns the empty list.
C10_BadRowsDropped ==
    /\ BadRowsExcluded
    /\ (ret.op = "apply_filters" /\ ret.out.raised # "") =>
            /\ ret.out.raised = "KeyError"
            /\ ~(NumericCols \subseteq ret.arg.cols)
            /\ \A i \in 1..Len(ret.arg.rows) : BadFrameRow(ret.arg, i)
    /\ (ScannedBadRow /\ DropBad(data) # <<>>
                      /\ DataFrame(DropBad(data)).cols = df.cols) =>
            [raised |-> error, results |-> results] = OutcomeWithout
    /\ (ScannedBadRow /\ DropBad(data) = <<>>) =>
            /\ results = <<>>
            /\ pc = "FAILED" <=> (~IsEmpty(df) /\ ~(NumericCols \subseteq df.cols))
            /\ pc = "FAILED" => error = "KeyError"
    /\ (ScannedBadRow /\ pc = "FAILED" /\ NumericCols \subseteq df.cols) =>
            OutcomeWithout.raised # ""
    /\ (pc = "FAILED" /\ error = "KeyError") => ~(Fields \subseteq df.cols)

\* a payload of a record with a non-numeric price and a record that passes:
\* the second is emitted alone
C10_Witness ==
    /\ pc = "DONE"
    /\ Len(data) = 2
    /\ data[1]["current_price"].k = "text"
    /\ ~BadRow(data[2])
    /\ Len(results) = 1

\* C6: every score calculate_ai_score returns, and so the ai_score of every
\* scored candidate and of every record run_scan returns, lies in [1, 10].
C6_ScoreInRange ==
    /\ ret.op = "calculate_ai_score" =>
            \A i \in 1..Len(ret.out) : ret.out[i] >= 10 /\ ret.out[i] <= 100
    /\ pc = "ASSEMBLING" =>
            \A i \in 1..Len(filtered.rows) :
                filtered.rows[i].ai_score >= 10 /\ filtered.rows[i].ai_score <= 100
    /\ \A i \in 1..Len(results) :
            results[i].ai_score >= 10 /\ results[i].ai_score <= 100

\* a candidate whose weighted sum is below 1 before np.clip and scores 1.0
C6_Witness ==
    /\ ret.op = "calculate_ai_score"
    /\ Len(ret.out) = 1
    /\ FLt(RawScore(ret.arg.rows[1], ret.minute, ret.jitter[1], ret.logulp[1]), FromInt(1))
    /\ ret.jitter[1] = 30000
    /\ ret.out[1] = 10

(***************************************************************************)
(* Properties of apply_filters under varying criteria (SpecFilter).        *)
(***************************************************************************)
\* predicates 1-4 of the filter under criteria c, bounds included
TenCoarse(row, c) ==
    /\ \A f \in NumericCols : row.cells[f].k = "num"
    /\ c.price[1] <= row.cells["current_price"].n
    /\ row.cells["current_price"].n <= c.price[2]
    /\ row.cells["total_volume"].n >= c.volume
    /\ c.change[1] <= row.cells["price_change_percentage_24h"].n
    /\ row.cells["price_change_percentage_24h"].n <= c.change[2]
    /\ c.mcap[1] <= row.cells["market_cap"].n
    /\ row.cells["market_cap"].n <= c.mcap[2]

\* predicates 5-10 under criteria c, bounds included
TenFine(row, c) ==
    /\ c.rsi[1] <= row.ind.rsi /\ row.ind.rsi <= c.rsi[2]
    /\ row.ind.rvol >= c.rvol
    /\ row.ind.ema_alignment = c.ema
    /\ Abs(row.ind.vwap_proximity) <= c.vwap
    /\ row.ind.twitter_mentions >= c.twitter
    /\ row.ind.news_sentiment >= c.sentiment

\* C2: under every criteria, apply_filters returns exactly the rows for which
\* all ten predicates hold with their bounds included: every row returned
\* satisfies the ten, and no row that satisfies them, on a threshold or
\* inside, is rejected.
C2_TenPredicatesUnderCriteria ==
    (ret.op = "apply_filters" /\ ~NoAssets(ret.arg) /\ ret.out.raised = "") =>
        LET input == [i \in 1..Len(ret.arg.rows) |-> Coerce(ret.arg.rows[i])]
            coarse == SelectSeq(input, LAMBDA r : TenCoarse(r, criteria))
        IN  /\ Len(ret.dr) = Len(coarse)
            /\ ret.out.frame.rows =
                 SelectSeq([j \in 1..Len(coarse) |->
                               [cells |-> coarse[j].cells, ind |-> ret.dr[j]]],
                           LAMBDA r : TenFine(r, criteria))

(***************************************************************************)
(* Properties of generate_risk_assessment (SpecRisk).                      *)
(***************************************************************************)
\* the price of a row in the unit of its stop_loss and take_profit
InPlanUnit(price, plan) == IF plan.digits = 6 THEN price * 100 ELSE price

\* C7: for two candidates of one price (a price the filters admit) and
\* ai_score_a > ai_score_b, the stop_loss of a is closer to the price, and
\* the take_profit and the position_size of a are not smaller.
C7_RiskMonotone ==
    (/\ ret.op = "generate_risk_assessment"
     /\ criteria.price[1] <= ret.price /\ ret.price <= criteria.price[2]
     /\ ret.score_a > ret.score_b) =>
        /\ ret.plan_a.raised = "" /\ ret.plan_b.raised = ""
        /\ Abs(InPlanUnit(ret.price, ret.plan_a) - ret.plan_a.stop_loss)
             < Abs(InPlanUnit(ret.price, ret.plan_b) - ret.plan_b.stop_loss)
        /\ ret.plan_a.take_profit >= ret.plan_b.take_profit
        /\ ret.plan_a.position_size >= ret.plan_b.position_size

\* the lowest price the filters admit, 0.001, and two scores 0.1 apart
C7_Witness ==
    /\ ret.op = "generate_risk_assessment"
    /\ ret.price = 10
    /\ ret.score_a = 11 /\ ret.score_b = 10
    /\ ret.plan_a.stop_loss = 535 /\ ret.plan_b.stop_loss = 530
    /\ ret.plan_a.take_profit > ret.plan_b.take_profit

\* C8: for current_price > 0 and ai_score in [1, 10] the division of
\* generate_risk_assessment has a non-zero denominator: stop_loss is below
\* the price and the price below take_profit; the risk_reward returned is at
\* least the floor of 1, so never negative.
C8_RiskRewardFloor ==
    (ret.op = "generate_risk_assessment" /\ ret.price > 0) =>
        /\ ret.plan_a.raised = ""
        /\ ret.plan_a.risk_reward >= 100
        /\ ret.plan_a.stop_loss < InPlanUnit(ret.price, ret.plan_a)
        /\ InPlanUnit(ret.price, ret.plan_a) < ret.plan_a.take_profit
        /\ LET cp == CurrentPrice(ret.price)
               score == Score(ret.score_a)
           IN  /\ LossDelta(cp, StopLoss(cp, score)).s = 1
               /\ ProfitDelta(TakeProfit(cp, score), cp).s = 1

\* ai_score 10 at price 0.001: stop_loss 0.00098, take_profit 0.00124 and a
\* ratio of 12; and ai_score 1, whose ratio of 0.13 is raised to the floor
C8_Witness ==
    /\ ret.op = "generate_risk_assessment"
    /\ ret.price = 10
    /\ ret.score_a = 100 /\ ret.plan_a.risk_reward = 1200
    /\ ret.score_b = 10 /\ ret.plan_b.risk_reward = 100

====
